---- MODULE Spec2Model ----
(***************************************************************************)
(* Model of the httprequest request builder (package httprequest) and of   *)
(* its mock transport (package httpmock).                                  *)
(*                                                                         *)
(* Strings the code parses (content types, header values) are sequences of *)
(* tokens: "application/json; charset=utf-8" is                            *)
(* <<"application/json", ";", "charset=utf-8">> and "" is <<>>.            *)
(* Byte strings (request and response bodies) are records                  *)
(* [enc, toks]: enc says what the bytes are (a JSON object, the JSON text  *)
(* null, an XML element, malformed bytes, no bytes at all) and toks lists  *)
(* the members in textual order, insignificant whitespace included.        *)
(***************************************************************************)
EXTENDS Integers, Sequences, FiniteSets, TLC

VARIABLES b, mock, last

vars == <<b, mock, last>>

(***************************************************************************)
(* Bounds                                                                  *)
(***************************************************************************)
\* most values a header holds before AddHeader is no longer called
MaxVals == 2
\* most expectations registered on one mock
MaxExpectations == 1
\* most calls one expectation answers
MaxCalls == 2
\* the most times a matcher is evaluated again on the request it left behind
MaxEvals == 2

(***************************************************************************)
(* Constants of the packages                                               *)
(***************************************************************************)
MIMEApplicationJson == <<"application/json">>
MIMEApplicationXml == <<"application/xml">>
MIMETextXml == <<"text/xml">>
HeaderContentType == "Content-Type"
StatusOK == 200
StatusCreated == 201
StatusNotFound == 404
MethodGet == "GET"
MethodPost == "POST"

testUrl == "https://example.com/api/v1/endpoint"
otherUrl == "https://example.com/api/v2/other"
\* a URL url.Parse rejects, so http.NewRequestWithContext fails
badUrl == ":bad"

NoErr == "none"
ErrParseMediaType == "unable to parse media type"
ErrMarshalJson == "unable to marshal body to json"
ErrMarshalXml == "unable to marshal body to xml"
ErrUnsupported == "unsupported content type"
ErrCreateRequest == "unable to create request"
ErrUnexpectedStatus == "received unexpected status code"
ErrUnmarshalJson == "unable to unmarshal json body"
ErrUnmarshalXml == "unable to unmarshal xml body"
ErrTransport == "transport error"

Range(s) == {s[i] : i \in 1..Len(s)}

(***************************************************************************)
(* Go values passed as bodies, expectations and outputs                    *)
(***************************************************************************)
Field(k, v) == [k |-> k, v |-> v]
NilValue == [kind |-> "nil", fields |-> <<>>]
Struct(fields) == [kind |-> "struct", fields |-> fields]
PtrTo(fields) == [kind |-> "ptr", fields |-> fields]
\* a value neither encoding/json nor encoding/xml can marshal
ChanValue == [kind |-> "chan", fields |-> <<>>]

\* UserRequest{ID: 6, Name: "jack"} of the tests; names are numbered
req1 == Struct(<<Field("id", 6), Field("name", 1)>>)
\* the same members declared in the other order
req1Swapped == Struct(<<Field("name", 1), Field("id", 6)>>)
\* a body differing from req1 in the value of id
req2 == Struct(<<Field("id", 7), Field("name", 1)>>)
\* UserResponse{ID: 42, Name: "stephen"}
resp1 == Struct(<<Field("id", 42), Field("name", 2)>>)
\* the caller's zero-valued output struct
ZeroOut == [k \in {"id", "name"} |-> 0]

(***************************************************************************)
(* Byte strings                                                            *)
(***************************************************************************)
WS == Field(" ", 0)
JsonObject(toks) == [enc |-> "json", toks |-> toks]
JsonNull == [enc |-> "null", toks |-> <<>>]
XmlElement(toks) == [enc |-> "xml", toks |-> toks]
Malformed == [enc |-> "junk", toks |-> <<>>]
NoBytes == [enc |-> "empty", toks |-> <<>>]

RECURSIVE NoSpace(_)
NoSpace(toks) ==
  IF toks = <<>> THEN <<>>
  ELSE IF Head(toks) = WS THEN NoSpace(Tail(toks))
       ELSE <<Head(toks)>> \o NoSpace(Tail(toks))

\* json.Marshal: a struct's members in declaration order, nil as null
jsonMarshal(v) ==
  CASE v.kind = "nil" -> [err |-> NoErr, bytes |-> JsonNull]
    [] v.kind \in {"struct", "ptr"} -> [err |-> NoErr, bytes |-> JsonObject(v.fields)]
    [] OTHER -> [err |-> "unsupported type", bytes |-> NoBytes]

\* xml.Marshal: one element holding the members in declaration order
xmlMarshal(v) ==
  CASE v.kind \in {"struct", "ptr"} -> [err |-> NoErr, bytes |-> XmlElement(v.fields)]
    [] v.kind = "nil" -> [err |-> NoErr, bytes |-> NoBytes]
    [] OTHER -> [err |-> "unsupported type", bytes |-> NoBytes]

\* the decoder's walk over an object's members: a member whose key names a
\* field of out is stored in it, later members overwriting earlier ones
RECURSIVE storeMembers(_, _)
storeMembers(toks, out) ==
  IF toks = <<>> THEN out
  ELSE LET t == Head(toks)
           o == IF t.k \in DOMAIN out THEN [out EXCEPT ![t.k] = t.v] ELSE out
       IN storeMembers(Tail(toks), o)

\* json.Unmarshal(bytes, &out) with out a non-nil pointer to a struct
jsonUnmarshal(bytes, out) ==
  CASE bytes.enc = "json" -> [err |-> NoErr, out |-> storeMembers(bytes.toks, out)]
    [] bytes.enc = "null" -> [err |-> NoErr, out |-> out]
    [] OTHER -> [err |-> "syntax error", out |-> out]

\* xml.Unmarshal(bytes, &out)
xmlUnmarshal(bytes, out) ==
  CASE bytes.enc = "xml" -> [err |-> NoErr, out |-> storeMembers(bytes.toks, out)]
    [] OTHER -> [err |-> "syntax error", out |-> out]

(***************************************************************************)
(* mime.ParseMediaType                                                     *)
(***************************************************************************)
ToLower(tok) == IF tok = "Application/JSON" THEN "application/json" ELSE tok

\* index of the first ";" of v, Len(v) + 1 when there is none
RECURSIVE cutAt(_, _)
cutAt(v, i) ==
  IF i > Len(v) THEN i
  ELSE IF v[i] = ";" THEN i ELSE cutAt(v, i + 1)

\* parameters are attribute=value
WellFormedParams == {"charset=utf-8"}

ParseMediaType(v) ==
  LET cut == cutAt(v, 1)
      base == SubSeq(v, 1, cut - 1)
      mediatype == [i \in 1..Len(base) |-> ToLower(base[i])]
      rest == SubSeq(v, cut, Len(v))
  IN IF Len(mediatype) # 1
     THEN [mediatype |-> <<>>, err |-> "mime: no media type"]
     ELSE IF \A i \in 1..Len(rest) : rest[i] = ";" \/ rest[i] \in WellFormedParams
          THEN [mediatype |-> mediatype, err |-> NoErr]
          ELSE [mediatype |-> mediatype, err |-> "mime: invalid media parameter"]

(***************************************************************************)
(* http.Header                                                             *)
(***************************************************************************)
\* textproto.CanonicalMIMEHeaderKey
CanonicalKey(k) == IF k = "content-type" THEN "Content-Type" ELSE k

\* a nil header and an empty one read alike
NilHeader == [k \in {} |-> <<>>]

HeaderSetKey(h, k, v) ==
  [x \in DOMAIN h \cup {CanonicalKey(k)} |->
     IF x = CanonicalKey(k) THEN <<v>> ELSE h[x]]

HeaderAddKey(h, k, v) ==
  [x \in DOMAIN h \cup {CanonicalKey(k)} |->
     IF x = CanonicalKey(k)
     THEN (IF x \in DOMAIN h THEN Append(h[x], v) ELSE <<v>>)
     ELSE h[x]]

\* the number of values a header holds under the given keys
RECURSIVE HeaderSize(_, _)
HeaderSize(h, keys) ==
  IF keys = {} THEN 0
  ELSE LET k == CHOOSE x \in keys : TRUE
       IN Len(h[k]) + HeaderSize(h, keys \ {k})

\* Header.Get: the first value of the key, "" when there is none
HeaderGet(h, k) ==
  IF CanonicalKey(k) \in DOMAIN h /\ Len(h[CanonicalKey(k)]) > 0
  THEN h[CanonicalKey(k)][1]
  ELSE <<>>

(***************************************************************************)
(* Requests and responses                                                  *)
(***************************************************************************)
\* request bodies: nil, http.NoBody, or a reader over bytes read up to EOF or not
NilBody == [kind |-> "nil", data |-> NoBytes, drained |-> FALSE]
NoBody == [kind |-> "NoBody", data |-> NoBytes, drained |-> FALSE]
Reader(bytes) == [kind |-> "reader", data |-> bytes, drained |-> FALSE]

\* ioutil.ReadAll: what is left of the stream, nothing once it was read to EOF
ReadAll(body) ==
  IF body.kind = "reader" /\ ~body.drained THEN body.data ELSE NoBytes

\* the stream after ReadAll
Drained(body) ==
  IF body.kind = "reader" THEN [body EXCEPT !.drained = TRUE] ELSE body

NoReq == [Method |-> "", Url |-> "", Header |-> NilHeader, Body |-> NilBody]
NilResp == [StatusCode |-> 0, Body |-> NilBody]
Response(statusCode, bytes) == [StatusCode |-> statusCode, Body |-> Reader(bytes)]

\* http.NewRequestWithContext rejects a method that is not a token and a URL
\* that does not parse
ValidMethod(m) == m \in {MethodGet, MethodPost}
ValidUrl(u) == u # badUrl

(***************************************************************************)
(* RequestBuilder                                                          *)
(***************************************************************************)
New(httpMethod, url, body) ==
  [body |-> body,
   url |-> url,
   httpMethod |-> httpMethod,
   expectedStatusCodes |-> <<StatusOK>>,
   contentType |-> MIMEApplicationJson,
   header |-> NilHeader]

ContentType(rb, contentType) == [rb EXCEPT !.contentType = contentType]

StatusIs(rb, status) == [rb EXCEPT !.expectedStatusCodes = <<status>>]

StatusIn(rb, statuses) == [rb EXCEPT !.expectedStatusCodes = statuses]

AddHeader(rb, key, value) == [rb EXCEPT !.header = HeaderAddKey(rb.header, key, value)]

SetHeader(rb, key, value) == [rb EXCEPT !.header = HeaderSetKey(rb.header, key, value)]

\* the switch of resolveContentType on the parsed content type; rb is the builder
\* with the header set and the media type saved
marshalBody(rb, parseErr) ==
  IF parseErr # NoErr
  THEN [b |-> rb, body |-> NilBody, err |-> ErrParseMediaType]
  ELSE IF rb.contentType = MIMEApplicationJson
  THEN (IF jsonMarshal(rb.body).err # NoErr
        THEN [b |-> rb, body |-> NilBody, err |-> ErrMarshalJson]
        ELSE [b |-> rb, body |-> Reader(jsonMarshal(rb.body).bytes), err |-> NoErr])
  ELSE IF rb.contentType \in {MIMEApplicationXml, MIMETextXml}
  THEN (IF xmlMarshal(rb.body).err # NoErr
        THEN [b |-> rb, body |-> NilBody, err |-> ErrMarshalXml]
        ELSE [b |-> rb, body |-> Reader(xmlMarshal(rb.body).bytes), err |-> NoErr])
  ELSE [b |-> rb, body |-> NilBody, err |-> ErrUnsupported]

\* b.contentType, _, err = mime.ParseMediaType(b.contentType)
saveMediaType(rb, parsed) ==
  marshalBody([rb EXCEPT !.contentType = parsed.mediatype], parsed.err)

resolveContentType(rb) ==
  IF rb.body = NilValue
  THEN [b |-> rb, body |-> NoBody, err |-> NoErr]
  ELSE saveMediaType(SetHeader(rb, HeaderContentType, rb.contentType),
                     ParseMediaType(rb.contentType))

\* Build once resolveContentType has returned r; the request holds the
\* builder's header map as it is when Build returns
newRequest(rb, r) ==
  IF r.err # NoErr
  THEN [b |-> r.b, req |-> NoReq, err |-> r.err]
  ELSE IF ~(ValidMethod(rb.httpMethod) /\ ValidUrl(rb.url))
       THEN [b |-> r.b, req |-> NoReq, err |-> ErrCreateRequest]
       ELSE [b |-> r.b,
             req |-> [Method |-> rb.httpMethod, Url |-> rb.url,
                      Header |-> r.b.header, Body |-> r.body],
             err |-> NoErr]

Build(rb) == newRequest(rb, resolveContentType(rb))

\* the loop without its break: the comparison with the last code decides
isExpectedStatusNoBreak(codes, i, status) ==
  Len(codes) > 0 /\ status = codes[Len(codes)]

\* the loop of validateStatusCode over the expected codes from index i
RECURSIVE isExpectedStatus(_, _, _)
isExpectedStatus(codes, i, status) ==
  IF i > Len(codes) THEN FALSE
  ELSE IF status = codes[i] THEN TRUE
       ELSE isExpectedStatus(codes, i + 1, status)

\* the default stored without the test for an unset list
defaultStatusCodesAlways(rb) == [rb EXCEPT !.expectedStatusCodes = <<StatusOK>>]

\* if len(b.expectedStatusCodes) == 0 { b.expectedStatusCodes = []int{http.StatusOK} }
defaultStatusCodes(rb) ==
  IF Len(rb.expectedStatusCodes) = 0
  THEN [rb EXCEPT !.expectedStatusCodes = <<StatusOK>>]
  ELSE rb

validateStatusCode(rb, resp) ==
  [b |-> defaultStatusCodes(rb),
   err |-> IF isExpectedStatus(defaultStatusCodes(rb).expectedStatusCodes, 1,
                               resp.StatusCode)
           THEN NoErr ELSE ErrUnexpectedStatus]

\* the switch of unmarshalResponse on the builder's content type
decodeBytes(contentType, respBytes, out) ==
  IF contentType = MIMEApplicationJson
  THEN [err |-> IF jsonUnmarshal(respBytes, out).err # NoErr
                THEN ErrUnmarshalJson ELSE NoErr,
        out |-> jsonUnmarshal(respBytes, out).out]
  ELSE IF contentType \in {MIMEApplicationXml, MIMETextXml}
  THEN [err |-> IF xmlUnmarshal(respBytes, out).err # NoErr
                THEN ErrUnmarshalXml ELSE NoErr,
        out |-> xmlUnmarshal(respBytes, out).out]
  ELSE [err |-> ErrUnsupported, out |-> out]

unmarshalResponse(rb, resp, out) ==
  decodeBytes(rb.contentType, ReadAll(resp.Body), out)

(***************************************************************************)
(* httpmock: the matcher of an expectation                                 *)
(***************************************************************************)
\* the header loop without the comparison of the lengths
RECURSIVE headerLoopNoLen(_, _, _)
headerLoopNoLen(keys, reqHeader, wantHeader) ==
  IF keys = {} THEN TRUE
  ELSE LET key == CHOOSE k \in keys : TRUE
           vals == reqHeader[key]
       IN IF key \notin DOMAIN wantHeader THEN FALSE
          ELSE IF \E i \in 1..Len(vals) :
                    i <= Len(wantHeader[key]) /\ vals[i] # wantHeader[key][i]
          THEN FALSE
          ELSE headerLoopNoLen(keys \ {key}, reqHeader, wantHeader)

\* the header loop of the matcher over the request's keys still to visit
RECURSIVE headerLoop(_, _, _)
headerLoop(keys, reqHeader, wantHeader) ==
  IF keys = {} THEN TRUE
  ELSE LET key == CHOOSE k \in keys : TRUE
           vals == reqHeader[key]
       IN IF key \notin DOMAIN wantHeader THEN FALSE
          ELSE IF Len(vals) # Len(wantHeader[key]) THEN FALSE
          ELSE IF \E i \in 1..Len(vals) : vals[i] # wantHeader[key][i] THEN FALSE
          ELSE headerLoop(keys \ {key}, reqHeader, wantHeader)

\* checkBodyMatch once the body is read: reqBodyBytes are the bytes read and
\* reread the request with its body replaced by a reader over them
compareBodies(reqBodyBytes, wantBody, reread) ==
  IF reqBodyBytes.enc \notin {"json", "null"}
  THEN [result |-> "panic", request |-> reread]
  ELSE IF jsonMarshal(wantBody).err # NoErr
  THEN [result |-> "panic", request |-> reread]
  ELSE [result |-> IF jsonMarshal(wantBody).bytes =
                        (IF reqBodyBytes.enc = "json"
                         THEN JsonObject(NoSpace(reqBodyBytes.toks))
                         ELSE reqBodyBytes)
                   THEN "true" ELSE "false",
        request |-> reread]

\* checkBodyMatch leaving the body it read as the request's body
checkBodyMatchNoReset(request, wantBody) ==
  IF request.Body.kind \in {"nil", "NoBody"} /\ wantBody = NilValue
  THEN [result |-> "true", request |-> request]
  ELSE IF wantBody.kind = "ptr"
  THEN [result |-> "panic", request |-> request]
  ELSE IF request.Body.kind = "nil"
  THEN [result |-> "panic", request |-> request]
  ELSE compareBodies(ReadAll(request.Body), wantBody,
                     [request EXCEPT !.Body = Drained(request.Body)])

\* checkBodyMatch: the verdict ("true", "false" or "panic") and the request
\* it leaves behind
checkBodyMatch(request, wantBody) ==
  IF request.Body.kind \in {"nil", "NoBody"} /\ wantBody = NilValue
  THEN [result |-> "true", request |-> request]
  ELSE IF wantBody.kind = "ptr"
  THEN [result |-> "panic", request |-> request]
  ELSE IF request.Body.kind = "nil"
  THEN [result |-> "panic", request |-> request]
  ELSE compareBodies(ReadAll(request.Body), wantBody,
                     [request EXCEPT !.Body = Reader(ReadAll(request.Body))])

makeRequestMatcherFunc(matchOn, request) ==
  IF matchOn.HttpMethod # request.Method
  THEN [result |-> "false", request |-> request]
  ELSE IF ~headerLoop(DOMAIN request.Header, request.Header, matchOn.Header)
       THEN [result |-> "false", request |-> request]
       ELSE checkBodyMatch(request, matchOn.Body)

(***************************************************************************)
(* httpmock: expectations, as testify's mock.Mock keeps them               *)
(***************************************************************************)
MatchOn(httpMethod, url, body) ==
  [HttpMethod |-> httpMethod,
   Url |-> url,
   Header |-> HeaderAddKey(NilHeader, HeaderContentType, MIMEApplicationJson),
   Body |-> body]

\* m.On("Do", requestMatcher): an expectation with no return values yet
On(matchOn) ==
  [matchOn |-> matchOn, returned |-> FALSE, resp |-> NilResp, err |-> NoErr,
   totalCalls |-> 0]

GET(m, url) == Append(m, On(MatchOn(MethodGet, url, NilValue)))

POST(m, url, body) == Append(m, On(MatchOn(MethodPost, url, body)))

\* Return leaving the response without the marshalled body
ReturnNoData(m, i, statusCode, out, outErr) ==
  [m EXCEPT ![i] = [@ EXCEPT !.returned = TRUE,
                             !.resp = Response(statusCode, NoBytes),
                             !.err = outErr]]

\* HttpCall.Return on the i-th expectation; json.Marshal failing is a panic,
\* which leaves the expectation as it was
Return(m, i, statusCode, out, outErr) ==
  LET data == jsonMarshal(out)
  IN IF data.err # NoErr THEN m
     ELSE [m EXCEPT ![i] = [@ EXCEPT !.returned = TRUE,
                                     !.resp = Response(statusCode, data.bytes),
                                     !.err = outErr]]

\* m.Called(req): the expectations are tried in the order registered, each
\* matcher seeing the request the one before left behind; r is the verdict
\* of the i-th
RECURSIVE findExpectedCall(_, _, _)
nextExpectedCall(m, i, r) ==
  IF r.result = "panic" THEN [idx |-> 0, panic |-> TRUE, request |-> r.request]
  ELSE IF r.result = "true" THEN [idx |-> i, panic |-> FALSE, request |-> r.request]
  ELSE findExpectedCall(m, i + 1, r.request)

findExpectedCall(m, i, request) ==
  IF i > Len(m) THEN [idx |-> 0, panic |-> TRUE, request |-> request]
  ELSE nextExpectedCall(m, i, makeRequestMatcherFunc(m[i].matchOn, request))

\* the expectations after the f.idx-th was called
Called(m, idx) == [m EXCEPT ![idx] = [@ EXCEPT !.totalCalls = @ + 1]]

\* Mock.Do once the expectation is found (f): an unmatched request and an
\* expectation without return values panic
returnArguments(m, f) ==
  IF f.panic
  THEN [resp |-> NilResp, err |-> NoErr, calls |-> m, panic |-> TRUE,
        idx |-> 0, request |-> f.request]
  ELSE IF ~m[f.idx].returned
  THEN [resp |-> NilResp, err |-> NoErr, calls |-> Called(m, f.idx), panic |-> TRUE,
        idx |-> f.idx, request |-> f.request]
  ELSE [resp |-> m[f.idx].resp, err |-> m[f.idx].err, calls |-> Called(m, f.idx),
        panic |-> FALSE, idx |-> f.idx, request |-> f.request]

MockDo(m, request) == returnArguments(m, findExpectedCall(m, 1, request))

(***************************************************************************)
(* Doer: a transport answering with a fixed response and error, or a mock  *)
(***************************************************************************)
StubDoer(resp, err) == [kind |-> "stub", resp |-> resp, err |-> err, calls |-> <<>>]
MockDoer(m) == [kind |-> "mock", resp |-> NilResp, err |-> NoErr, calls |-> m]
NoDoer == [kind |-> "none", resp |-> NilResp, err |-> NoErr, calls |-> <<>>]

DoerDo(doer, request) ==
  IF doer.kind = "mock"
  THEN MockDo(doer.calls, request)
  ELSE [resp |-> doer.resp, err |-> doer.err, calls |-> doer.calls, panic |-> FALSE,
        idx |-> 0, request |-> request]

\* the mock hands out the response it holds, so reading the body of the
\* response reads the body the expectation keeps
BodyRead(calls, idx) ==
  IF idx = 0 THEN calls
  ELSE [calls EXCEPT ![idx] = [@ EXCEPT !.resp = [@ EXCEPT !.Body = Drained(@)]]]

DoResult(rb, req, resp, err, out, calls, steps, panic, idx) ==
  [b |-> rb, req |-> req, resp |-> resp, err |-> err, out |-> out, calls |-> calls,
   steps |-> steps, panic |-> panic, idx |-> idx]

\* Do from unmarshalResponse on
doDecode(checked, sent, decoded) ==
  IF decoded.err # NoErr
  THEN DoResult(checked.b, sent.request, NilResp, decoded.err, decoded.out,
                BodyRead(sent.calls, sent.idx),
                <<"Build", "doer.Do", "validateStatusCode", "unmarshalResponse">>,
                FALSE, sent.idx)
  ELSE DoResult(checked.b, sent.request, [sent.resp EXCEPT !.Body = Drained(@)],
                NoErr, decoded.out, BodyRead(sent.calls, sent.idx),
                <<"Build", "doer.Do", "validateStatusCode", "unmarshalResponse">>,
                FALSE, sent.idx)

\* Do from validateStatusCode on
doValidate(checked, sent, out) ==
  IF checked.err # NoErr
  THEN DoResult(checked.b, sent.request, NilResp, checked.err, out, sent.calls,
                <<"Build", "doer.Do", "validateStatusCode">>, FALSE, sent.idx)
  ELSE doDecode(checked, sent, unmarshalResponse(checked.b, sent.resp, out))

\* Do decoding the response before it verifies the status
doSentDecodeFirst(built, sent, out) ==
  IF sent.panic
  THEN DoResult(built.b, sent.request, NilResp, NoErr, out, sent.calls,
                <<"Build", "doer.Do">>, TRUE, sent.idx)
  ELSE IF sent.err # NoErr
  THEN DoResult(built.b, sent.request, NilResp, sent.err, out, sent.calls,
                <<"Build", "doer.Do">>, FALSE, sent.idx)
  ELSE IF unmarshalResponse(built.b, sent.resp, out).err # NoErr
  THEN DoResult(built.b, sent.request, NilResp,
                unmarshalResponse(built.b, sent.resp, out).err, out,
                BodyRead(sent.calls, sent.idx),
                <<"Build", "doer.Do", "unmarshalResponse">>, FALSE, sent.idx)
  ELSE DoResult(validateStatusCode(built.b, sent.resp).b, sent.request,
                IF validateStatusCode(built.b, sent.resp).err # NoErr
                THEN NilResp ELSE [sent.resp EXCEPT !.Body = Drained(@)],
                validateStatusCode(built.b, sent.resp).err,
                unmarshalResponse(built.b, sent.resp, out).out,
                BodyRead(sent.calls, sent.idx),
                <<"Build", "doer.Do", "unmarshalResponse", "validateStatusCode">>,
                FALSE, sent.idx)

\* Do going on to the status and the body of a response that came with an
\* error of the transport
doSentPastError(built, sent, out) ==
  IF sent.panic
  THEN DoResult(built.b, sent.request, NilResp, NoErr, out, sent.calls,
                <<"Build", "doer.Do">>, TRUE, sent.idx)
  ELSE IF sent.err # NoErr /\ sent.resp = NilResp
  THEN DoResult(built.b, sent.request, NilResp, sent.err, out, sent.calls,
                <<"Build", "doer.Do">>, FALSE, sent.idx)
  ELSE doValidate(validateStatusCode(built.b, sent.resp), sent, out)

\* Do from the answer of doer.Do on
doSent(built, sent, out) ==
  IF sent.panic
  THEN DoResult(built.b, sent.request, NilResp, NoErr, out, sent.calls,
                <<"Build", "doer.Do">>, TRUE, sent.idx)
  ELSE IF sent.err # NoErr
  THEN DoResult(built.b, sent.request, NilResp, sent.err, out, sent.calls,
                <<"Build", "doer.Do">>, FALSE, sent.idx)
  ELSE doValidate(validateStatusCode(built.b, sent.resp), sent, out)

\* Do from the result of Build on
doBuilt(built, doer, out) ==
  IF built.err # NoErr
  THEN DoResult(built.b, NoReq, NilResp, built.err, out, doer.calls,
                <<"Build">>, FALSE, 0)
  ELSE doSent(built, DoerDo(doer, built.req), out)

Do(rb, doer, out) == doBuilt(Build(rb), doer, out)

(***************************************************************************)
(* Inputs                                                                  *)
(***************************************************************************)
Methods == {MethodGet, MethodPost}
ContentTypes ==
  {MIMEApplicationJson, MIMEApplicationXml, MIMETextXml,
   <<"application/json", ";", "charset=utf-8">>,
   <<"Application/JSON">>,
   <<"application/morse-code">>,
   <<>>}
Bodies == {NilValue, req1, ChanValue}
Statuses == {StatusOK, StatusCreated, StatusNotFound}
StatusLists == {<<>>, <<StatusCreated, StatusNotFound>>}
HeaderKeys == {"content-type", "X-Id"}
HeaderValues == {<<"v1">>}
ResponseBytes == {JsonObject(resp1.fields), XmlElement(resp1.fields), Malformed}
StubDoers ==
  {StubDoer(Response(s, bytes), NoErr) : s \in {StatusOK, StatusNotFound}, bytes \in ResponseBytes}
  \cup {StubDoer(NilResp, ErrTransport), StubDoer(Response(StatusNotFound, Malformed), ErrTransport)}

MockUrls == {testUrl, otherUrl}
\* expectation bodies: structs, a pointer to one, values json.Marshal rejects
WantBodies == {req1, req1Swapped, PtrTo(req1.fields), ChanValue}
\* the requests handed to a matcher
RequestHeaders ==
  {NilHeader,
   [k \in {"Content-Type"} |-> <<MIMEApplicationJson>>],
   [k \in {"Content-Type"} |-> <<MIMEApplicationJson, MIMEApplicationJson>>],
   [k \in {"Content-Type"} |-> <<>>],
   [k \in {"Content-Type"} |-> <<MIMEApplicationXml>>],
   [k \in {"content-type"} |-> <<MIMEApplicationJson>>],
   [k \in {"Content-Type", "X-Id"} |->
      IF k = "X-Id" THEN <<<<"v1">>>> ELSE <<MIMEApplicationJson>>]}
RequestBodies ==
  {NilBody, NoBody,
   Reader(JsonObject(req1.fields)),
   Reader(JsonObject(req1Swapped.fields)),
   Reader(JsonObject(<<WS>> \o req1.fields)),
   Reader(JsonObject(req2.fields)),
   Reader(JsonNull),
   Reader(Malformed)}
Requests ==
  [Method : Methods, Url : MockUrls, Header : RequestHeaders, Body : RequestBodies]
\* the requests sent to the mock directly
DirectRequests ==
  [Method : Methods, Url : {testUrl}, Header : {NilHeader},
   Body : {NilBody, Reader(JsonObject(req1.fields))}]
\* the builders a test sends through the mock
Chains(rb) == {rb, AddHeader(rb, "X-Id", <<"v1">>), StatusIs(rb, StatusCreated)}

(***************************************************************************)
(* State: the builder b, the mock's expectations, and what the last        *)
(* operation was given and returned                                        *)
(***************************************************************************)
NoBuilder == New("", "", NilValue)
NoMatchOn == MatchOn("", "", NilValue)
NoLast ==
  [op |-> "none", pre |-> NoBuilder, doer |-> NoDoer, status |-> 0,
   matchOn |-> NoMatchOn, given |-> NoReq,
   err |-> NoErr, req |-> NoReq, resp |-> NilResp, out |-> ZeroOut,
   steps |-> <<>>, panic |-> FALSE, idx |-> 0, result |-> "none", headerOK |-> FALSE,
   evals |-> <<>>]

Init ==
  /\ b = New(MethodGet, testUrl, NilValue)
  /\ mock = <<>>
  /\ last = NoLast

NewStep ==
  \E m \in Methods, u \in {testUrl, badUrl}, body \in Bodies :
    /\ b' = New(m, u, body)
    /\ last' = NoLast
    /\ UNCHANGED mock

ContentTypeStep ==
  \E ct \in ContentTypes :
    /\ b' = ContentType(b, ct)
    /\ last' = NoLast
    /\ UNCHANGED mock

StatusIsStep ==
  \E s \in {StatusOK, StatusNotFound} :
    /\ b' = StatusIs(b, s)
    /\ last' = NoLast
    /\ UNCHANGED mock

StatusInStep ==
  \E ss \in StatusLists :
    /\ b' = StatusIn(b, ss)
    /\ last' = NoLast
    /\ UNCHANGED mock

AddHeaderStep ==
  \E k \in HeaderKeys, v \in HeaderValues :
    /\ HeaderSize(b.header, DOMAIN b.header) < MaxVals
    /\ b' = AddHeader(b, k, v)
    /\ last' = NoLast
    /\ UNCHANGED mock

SetHeaderStep ==
  \E k \in HeaderKeys, v \in HeaderValues :
    /\ b' = SetHeader(b, k, v)
    /\ last' = NoLast
    /\ UNCHANGED mock

BuildStep ==
  \E r \in {Build(b)} :
    /\ b' = r.b
    /\ last' = [NoLast EXCEPT !.op = "Build", !.pre = b, !.err = r.err, !.req = r.req]
    /\ UNCHANGED mock

validateStatusCodeStep ==
  \E s \in Statuses :
    \E r \in {validateStatusCode(b, Response(s, NoBytes))} :
      /\ b' = r.b
      /\ last' = [NoLast EXCEPT !.op = "validateStatusCode", !.pre = b, !.status = s,
                                !.err = r.err]
      /\ UNCHANGED mock

DoStep ==
  \E doer \in StubDoers :
    \E r \in {Do(b, doer, ZeroOut)} :
      /\ b' = r.b
      /\ last' = [NoLast EXCEPT !.op = "Do", !.pre = b, !.doer = doer,
                                !.err = r.err, !.req = r.req, !.resp = r.resp,
                                !.out = r.out, !.steps = r.steps, !.panic = r.panic,
                                !.idx = r.idx]
      /\ UNCHANGED mock

Next ==
  \/ NewStep
  \/ ContentTypeStep
  \/ StatusIsStep
  \/ StatusInStep
  \/ AddHeaderStep
  \/ SetHeaderStep
  \/ BuildStep
  \/ validateStatusCodeStep
  \/ DoStep

Spec == Init /\ [][Next]_vars

(***************************************************************************)
(* The mock: registering expectations, matching requests, answering calls  *)
(***************************************************************************)
GETStep(urls) ==
  \E u \in urls :
    /\ Len(mock) < MaxExpectations
    /\ mock' = GET(mock, u)
    /\ last' = NoLast
    /\ UNCHANGED b

POSTStep(urls, bodies) ==
  \E u \in urls, body \in bodies :
    /\ Len(mock) < MaxExpectations
    /\ mock' = POST(mock, u, body)
    /\ last' = NoLast
    /\ UNCHANGED b

ReturnStep ==
  \E i \in 1..Len(mock), s \in {StatusOK, StatusNotFound}, out \in {resp1, ChanValue},
     e \in {NoErr, ErrTransport} :
    /\ ~mock[i].returned
    /\ mock' = Return(mock, i, s, out, e)
    /\ last' = NoLast
    /\ UNCHANGED b

\* the matcher of the i-th expectation applied to a request
MatcherStep ==
  \E i \in 1..Len(mock), request \in Requests :
    \E r \in {makeRequestMatcherFunc(mock[i].matchOn, request)} :
      /\ last' = [NoLast EXCEPT !.op = "match", !.matchOn = mock[i].matchOn,
                                !.given = request, !.req = r.request,
                                !.result = r.result,
                                !.headerOK = headerLoop(DOMAIN request.Header,
                                                        request.Header,
                                                        mock[i].matchOn.Header)]
      /\ UNCHANGED <<b, mock>>

\* mock.Do(req) called by a test
MockDoStep ==
  \E request \in DirectRequests :
    \E r \in {MockDo(mock, request)} :
      /\ \A i \in 1..Len(mock) : mock[i].totalCalls < MaxCalls
      /\ mock' = r.calls
      /\ last' = [NoLast EXCEPT !.op = "Mock.Do", !.doer = MockDoer(mock),
                                !.given = request, !.req = r.request,
                                !.resp = r.resp, !.err = r.err, !.panic = r.panic,
                                !.idx = r.idx]
      /\ UNCHANGED b

\* New(method, url, body)...Do(ctx, mock, &out)
DoMockStep ==
  \E m \in Methods, u \in MockUrls, body \in {NilValue, req1, req2} :
    \E rb \in Chains(New(m, u, body)) :
      \E r \in {Do(rb, MockDoer(mock), ZeroOut)} :
        /\ \A i \in 1..Len(mock) : mock[i].totalCalls < MaxCalls
        /\ b' = r.b
        /\ mock' = r.calls
        /\ last' = [NoLast EXCEPT !.op = "Do", !.pre = rb, !.doer = MockDoer(mock),
                                  !.err = r.err, !.req = r.req, !.resp = r.resp,
                                  !.out = r.out, !.steps = r.steps, !.panic = r.panic,
                                  !.idx = r.idx]

NextMatch ==
  \/ GETStep(MockUrls)
  \/ POSTStep(MockUrls, WantBodies)
  \/ MatcherStep

SpecMatch == Init /\ [][NextMatch]_vars

\* the matcher of the same expectation evaluated again on the request value
\* its last evaluation left behind; evals keeps the earlier verdicts
MatcherAgainStep ==
  /\ last.op \in {"match", "rematch"}
  /\ Len(last.evals) < MaxEvals
  /\ \E r \in {makeRequestMatcherFunc(last.matchOn, last.req)} :
       last' = [last EXCEPT !.op = "rematch", !.req = r.request,
                            !.result = r.result,
                            !.evals = Append(@, last.result)]
  /\ UNCHANGED <<b, mock>>

NextRematch ==
  \/ GETStep(MockUrls)
  \/ POSTStep(MockUrls, WantBodies)
  \/ MatcherStep
  \/ MatcherAgainStep

SpecRematch == Init /\ [][NextRematch]_vars

NextMock ==
  \/ GETStep({testUrl})
  \/ POSTStep({testUrl}, {req1, PtrTo(req1.fields)})
  \/ ReturnStep
  \/ MockDoStep
  \/ DoMockStep

SpecMock == Init /\ [][NextMock]_vars

(***************************************************************************)
(* Properties                                                              *)
(***************************************************************************)
\* the accepted status set a list of expected codes stands for
Accepted(codes) == IF codes = <<>> THEN {StatusOK} ELSE Range(codes)

SupportedTypes == {MIMEApplicationJson, MIMEApplicationXml, MIMETextXml}

\* a content type that parses to a media type outside the supported ones
UnsupportedType(ct) ==
  /\ ParseMediaType(ct).err = NoErr
  /\ ParseMediaType(ct).mediatype \notin SupportedTypes

\* C1: validateStatusCode returns no error exactly when the response's status
\* is in the builder's accepted set, an unset list standing for {200}
C1_ValidateIffAccepted ==
  last.op = "validateStatusCode" =>
    ((last.err = NoErr) <=> (last.status \in Accepted(last.pre.expectedStatusCodes)))

\* C1 witness: an unset list accepted a 200
C1_Witness ==
  /\ last.op = "validateStatusCode"
  /\ last.pre.expectedStatusCodes = <<>>
  /\ last.status = StatusOK
  /\ last.err = NoErr

\* C2: a builder whose content type is none of the supported ones fails Build
\* with the unsupported-content-type error whatever its method, URL and body,
\* and Do never hands such a request to the transport
C2_UnsupportedAlwaysFails ==
  /\ (last.op = "Build" /\ UnsupportedType(last.pre.contentType))
       => last.err = ErrUnsupported
  /\ (last.op = "Do" /\ UnsupportedType(last.pre.contentType))
       => (last.err = ErrUnsupported /\ last.steps = <<"Build">>)

\* C3: Build on New(GET, url, nil) succeeds with an empty body and the
\* Content-Type header application/json
C3_GetNilBodyHasJsonHeader ==
  (last.op = "Build" /\ last.pre = New(MethodGet, testUrl, NilValue)) =>
    /\ last.err = NoErr
    /\ last.req.Body = NoBody
    /\ HeaderGet(last.req.Header, HeaderContentType) = MIMEApplicationJson

\* C4: after a successful Build with a present body the request's Content-Type
\* header is the media type the content type resolves to, parameters stripped
C4_HeaderIsResolvedMediaType ==
  (last.op = "Build" /\ last.err = NoErr /\ last.pre.body # NilValue) =>
    HeaderGet(last.req.Header, HeaderContentType)
      = ParseMediaType(last.pre.contentType).mediatype

\* C5: when the transport answers without error with a status outside the
\* accepted set, Do returns the unexpected-status error and a nil response
\* and leaves the caller's output as it was, whatever the body; a decode
\* error is reported only for an accepted status
C5_StatusBeforeDecode ==
  (last.op = "Do" /\ Len(last.steps) >= 2 /\ ~last.panic /\ last.doer.err = NoErr) =>
    /\ (last.doer.resp.StatusCode \notin Accepted(last.pre.expectedStatusCodes))
         => /\ last.err = ErrUnexpectedStatus
            /\ last.resp = NilResp
            /\ last.out = ZeroOut
    /\ (last.err \in {ErrUnmarshalJson, ErrUnmarshalXml, ErrUnsupported})
         => last.doer.resp.StatusCode \in Accepted(last.pre.expectedStatusCodes)

\* C5 witness: a 404 with a malformed body was answered to a builder accepting 200
C5_Witness ==
  /\ last.op = "Do"
  /\ last.doer.err = NoErr
  /\ last.doer.resp = Response(StatusNotFound, Malformed)
  /\ last.pre.expectedStatusCodes = <<StatusOK>>
  /\ last.err = ErrUnexpectedStatus

\* the members of two bodies agree as JSON
SameJson(x, y) ==
  /\ x.kind = y.kind
  /\ Len(x.fields) = Len(y.fields)
  /\ Range(x.fields) = Range(y.fields)

\* C6: with POST(url, B).Return(200, V, nil) or GET(url).Return(200, V, nil)
\* registered and not yet answered, Do of New(method, url, B) returns no
\* error and a response, decodes V's members into the output and counts the
\* expectation as called; a POST is answered by no expectation whose body
\* differs from its own
C6_MockExample ==
  (last.op = "Do" /\ last.doer.kind = "mock") =>
    /\ ( /\ Len(last.doer.calls) >= 1
         /\ last.doer.calls[1].returned
         /\ last.doer.calls[1].resp.StatusCode = StatusOK
         /\ last.doer.calls[1].err = NoErr
         /\ ~last.doer.calls[1].resp.Body.drained
         /\ last.doer.calls[1].matchOn.Body.kind # "ptr"
         /\ last.pre = New(last.doer.calls[1].matchOn.HttpMethod,
                           last.doer.calls[1].matchOn.Url,
                           last.doer.calls[1].matchOn.Body) )
         => /\ last.err = NoErr
            /\ ~last.panic
            /\ last.resp # NilResp
            /\ last.resp.StatusCode = StatusOK
            /\ \A i \in 1..Len(resp1.fields) :
                 last.out[resp1.fields[i].k] = resp1.fields[i].v
            /\ last.idx = 1
            /\ mock[1].totalCalls = last.doer.calls[1].totalCalls + 1
    /\ (last.idx > 0 /\ last.pre.httpMethod = MethodPost)
         => SameJson(last.doer.calls[last.idx].matchOn.Body, last.pre.body)

\* C6 witness: the POST of the example was answered and decoded
C6_Witness ==
  /\ last.op = "Do"
  /\ last.pre = New(MethodPost, testUrl, req1)
  /\ last.idx = 1
  /\ last.err = NoErr
  /\ last.out = [k \in {"id", "name"} |-> IF k = "id" THEN 42 ELSE 2]
  /\ mock[1].totalCalls = 1

\* C7: a request matches an expectation only if its method and its URL equal
\* the expectation's
C7_MatchNeedsMethodAndUrl ==
  (last.op = "match" /\ last.result = "true") =>
    /\ last.given.Method = last.matchOn.HttpMethod
    /\ last.given.Url = last.matchOn.Url

\* C8: when the method and header checks pass, a request body that is the
\* expected JSON object up to the order of its members matches, and one that
\* differs in a member does not
C8_KeyOrderInsensitive ==
  ( /\ last.op = "match"
    /\ last.given.Method = last.matchOn.HttpMethod
    /\ last.headerOK
    /\ last.given.Body.kind = "reader"
    /\ last.given.Body.data.enc = "json"
    /\ last.matchOn.Body.kind = "struct" )
    => IF Range(NoSpace(last.given.Body.data.toks)) = Range(last.matchOn.Body.fields)
       THEN last.result = "true"
       ELSE last.result = "false"

\* C9: the header check passes exactly when every key of the request is a key
\* of the expectation holding the same values in the same order; a request
\* key the expectation lacks leaves the request unmatched
C9_HeaderCheck ==
  last.op = "match" =>
    /\ last.headerOK <=>
         \A k \in DOMAIN last.given.Header :
           /\ k \in DOMAIN last.matchOn.Header
           /\ Len(last.given.Header[k]) = Len(last.matchOn.Header[k])
           /\ \A i \in 1..Len(last.given.Header[k]) :
                last.given.Header[k][i] = last.matchOn.Header[k][i]
    /\ (\E k \in DOMAIN last.given.Header : k \notin DOMAIN last.matchOn.Header)
         => last.result = "false"
    /\ (last.result = "true") => last.headerOK

\* C9 witness: a request without headers passed the check of an expectation
\* that holds Content-Type, and matched
C9_Witness ==
  /\ last.op = "match"
  /\ last.given.Header = NilHeader
  /\ DOMAIN last.matchOn.Header = {HeaderContentType}
  /\ last.headerOK
  /\ last.result = "true"

\* C10 as stated: Build, Do and validateStatusCode leave the whole descriptor
\* as it was
C10_DescriptorUntouched ==
  last.op \in {"Build", "Do", "validateStatusCode"} => b = last.pre

\* the header without its Content-Type entry
OtherHeaders(h) == [k \in DOMAIN h \ {HeaderContentType} |-> h[k]]

\* C10 amended: Build, Do and validateStatusCode leave method, URL, body and
\* every header but Content-Type as they were; Build with an absent body
\* changes nothing; with a present body it may rewrite the Content-Type header
\* and it replaces the content type by the media type it parses to;
\* validateStatusCode changes the accepted codes only from unset to {200}
C10_FrameOfBuildAndValidate ==
  last.op \in {"Build", "Do", "validateStatusCode"} =>
    /\ b.httpMethod = last.pre.httpMethod
    /\ b.url = last.pre.url
    /\ b.body = last.pre.body
    /\ OtherHeaders(b.header) = OtherHeaders(last.pre.header)
    /\ b.expectedStatusCodes \in
         {last.pre.expectedStatusCodes}
           \cup (IF last.pre.expectedStatusCodes = <<>> /\ last.op # "Build"
                 THEN {<<StatusOK>>} ELSE {})
    /\ (last.op = "validateStatusCode") =>
         /\ b.contentType = last.pre.contentType
         /\ b.header = last.pre.header
         /\ Accepted(b.expectedStatusCodes) = Accepted(last.pre.expectedStatusCodes)
         /\ b.expectedStatusCodes # <<>>
    /\ (last.op \in {"Build", "Do"} /\ last.pre.body = NilValue) =>
         /\ b.contentType = last.pre.contentType
         /\ b.header = last.pre.header
    /\ (last.op \in {"Build", "Do"} /\ last.pre.body # NilValue) =>
         b.contentType = ParseMediaType(last.pre.contentType).mediatype

\* C10 witness: a Build changed the content type and the header of its builder
C10_Witness ==
  /\ last.op = "Build"
  /\ last.pre.body # NilValue
  /\ b.contentType # last.pre.contentType
  /\ b.header # last.pre.header

\* the matcher reaches the read of the request's body: method and headers
\* pass, the body is there, and the expectation's body is neither a pointer
\* nor absent together with an empty request body
BodyExamined(matchOn, request) ==
  /\ matchOn.HttpMethod = request.Method
  /\ headerLoop(DOMAIN request.Header, request.Header, matchOn.Header)
  /\ ~(request.Body.kind \in {"nil", "NoBody"} /\ matchOn.Body = NilValue)
  /\ matchOn.Body.kind # "ptr"
  /\ request.Body.kind # "nil"

\* C11: once the matcher has read a request's body, the request holds a
\* fresh reader over exactly the bytes read; every further evaluation of the
\* matcher on that request value gives the verdict of the first, and a
\* reader of the request left behind still gets the whole original body
C11_MatcherReplaysBody ==
  /\ (last.op = "match" /\ BodyExamined(last.matchOn, last.given)) =>
       /\ last.req.Body = Reader(ReadAll(last.given.Body))
       /\ [last.req EXCEPT !.Body = last.given.Body] = last.given
  /\ last.op \in {"match", "rematch"} =>
       /\ \A i \in 1..Len(last.evals) : last.evals[i] = last.result
       /\ ReadAll(last.req.Body) = ReadAll(last.given.Body)

\* C11 witness: a matcher that read a JSON body and matched was evaluated
\* twice more on the request it left behind
C11_Witness ==
  /\ last.op = "rematch"
  /\ Len(last.evals) >= 2
  /\ BodyExamined(last.matchOn, last.given)
  /\ last.given.Body = Reader(JsonObject(req1.fields))
  /\ last.result = "true"

\* how many times x occurs in seq
Count(seq, x) == Cardinality({i \in 1..Len(seq) : seq[i] = x})

\* C12: Do calls the transport at most once and not at all when Build
\* fails; an error of the transport is returned as it is, with a nil
\* response, without the status being validated or the body decoded; every
\* error Do returns (of Build, the transport, the status or the decoding)
\* comes with a nil response
C12_SingleAttempt ==
  (last.op = "Do" /\ ~last.panic) =>
    \A built \in {Build(last.pre)} :
      /\ Count(last.steps, "doer.Do") <= 1
      /\ (built.err # NoErr) =>
           /\ Count(last.steps, "doer.Do") = 0
           /\ last.err = built.err
           /\ last.resp = NilResp
      /\ (built.err = NoErr) => Count(last.steps, "doer.Do") = 1
      /\ (built.err = NoErr /\ last.doer.kind = "stub" /\ last.doer.err # NoErr) =>
           /\ last.err = last.doer.err
           /\ last.resp = NilResp
           /\ last.steps = <<"Build", "doer.Do">>
           /\ last.out = ZeroOut
           /\ b = built.b
      /\ (last.err # NoErr) => last.resp = NilResp
      /\ (last.err = NoErr) =>
           last.steps = <<"Build", "doer.Do", "validateStatusCode", "unmarshalResponse">>

\* C12 witness: the transport answered a 404 together with an error to a
\* builder with no accepted codes set; Do returned the error and no
\* response, and the builder's list is still unset
C12_Witness ==
  /\ last.op = "Do"
  /\ last.doer = StubDoer(Response(StatusNotFound, Malformed), ErrTransport)
  /\ last.pre.expectedStatusCodes = <<>>
  /\ last.req # NoReq
  /\ last.err = ErrTransport
  /\ last.resp = NilResp
  /\ b.expectedStatusCodes = <<>>

====
